---------------------------- MODULE Spec2Model ----------------------------
(***************************************************************************)
(* DailyNews: article content resolution and summarisation pipeline        *)
(* (src/src/dailynews/summarizer.py).                                      *)
(*                                                                         *)
(* Text is a sequence of one-character strings.  A missing dict key, None  *)
(* and the empty string are all the empty sequence, which is what the      *)
(* code's `article.get(k) or ""` makes of them.                            *)
(***************************************************************************)
EXTENDS Integers, Sequences, FiniteSets, TLC

VARIABLES
    env,            \* os.environ, settings and the transformers library
    net,            \* what the network answers for each url
    _summarizer,    \* the module global caching the summarizer callable
    pc,             \* where the caller is
    op,             \* the public function the caller is running
    articles,       \* the article list being summarised
    prepared,       \* prepared_articles of summarize_articles
    idx,            \* position of the for loop over prepared_articles
    summaries,      \* the blocks appended so far
    outcomes,       \* what the backend did for each prepared article so far
    result,         \* the value returned by the finished call
    raised,         \* the exception that left the finished call, or "none"
    summarizer,     \* the callable get_summarizer returned to the caller
    fetched,        \* urls requested with requests.get during the call
    steps,          \* what the latest get_summarizer call did, in order
    obtains,        \* get_summarizer calls made by the running summarize_articles
    topics,         \* the topic list of summarize_by_topic
    topicArticles,  \* the article list of summarize_by_topic
    pending,        \* groups of summarize_by_topic not yet summarised
    topicSummaries, \* the summaries dict of summarize_by_topic
    callers         \* the threads calling get_summarizer at the same time

vars == <<env, net, _summarizer, pc, op, articles, prepared, idx, summaries,
          outcomes, result, raised, summarizer, fetched, steps, obtains,
          topics, topicArticles, pending, topicSummaries, callers>>

-----------------------------------------------------------------------------
(* Program constants *)

_MAX_CHARS == 1000
_MAX_ARTICLES == 5
_MAX_REMOTE_CHARS == 8000
DEGRADED_CHARS == 200

NO_NEWS ==
    <<"N", "o", " ", "n", "e", "w", "s", " ",
      "a", "v", "a", "i", "l", "a", "b", "l", "e", ".">>

-----------------------------------------------------------------------------
(* Characters and small helpers *)

Whitespace == {" ", "\n", "\t"}
NUL == "NUL"

Min(S) == CHOOSE m \in S : \A x \in S : m <= x
Max(S) == CHOOSE m \in S : \A x \in S : m >= x

Drop(s, n) == SubSeq(s, n + 1, Len(s))
Take(s, n) == SubSeq(s, 1, n)

Contains(s, c) == \E i \in 1..Len(s) : s[i] = c

UpperCase ==
    <<"A", "B", "C", "D", "E", "F", "G", "H", "I", "J", "K", "L",
      "M", "N", "O", "P", "Q", "R", "S", "T", "U", "V", "W", "X",
      "Y", "Z">>

LowerCase ==
    <<"a", "b", "c", "d", "e", "f", "g", "h", "i", "j", "k", "l",
      "m", "n", "o", "p", "q", "r", "s", "t", "u", "v", "w", "x",
      "y", "z">>

\* str.lower() of one character
LowerChar(c) ==
    IF \E i \in 1..Len(UpperCase) : UpperCase[i] = c
    THEN LowerCase[CHOOSE i \in 1..Len(UpperCase) : UpperCase[i] = c]
    ELSE c

Lower(s) == [i \in 1..Len(s) |-> LowerChar(s[i])]

IsPrefixAt(s, i, pat) ==
    /\ i + Len(pat) - 1 <= Len(s)
    /\ \A k \in 1..Len(pat) : s[i + k - 1] = pat[k]

IsSubstring(pat, s) == \E i \in 1..(Len(s) + 1) : IsPrefixAt(s, i, pat)

\* str.strip()
Strip(s) ==
    LET n == Len(s)
        lead == {i \in 1..n : s[i] \notin Whitespace}
        trail == {k \in 1..n : s[n + 1 - k] \notin Whitespace}
    IN  IF lead = {} THEN <<>> ELSE SubSeq(s, Min(lead), n + 1 - Min(trail))

-----------------------------------------------------------------------------
(* Text Normalizer: _strip_html and _normalise_text *)

\* The text that closes a match of _SCRIPT_STYLE_RE.  The pattern is the raw
\* string r"(?is)<(script|style).*?>.*?</\\1>": inside a raw string \\ is an
\* escaped backslash, so the pattern ends with the five literal characters
\* < / \ 1 > and holds no back-reference.
ScriptCloser == <<"<", "/", "\\", "1", ">">>

ScriptName == <<"s", "c", "r", "i", "p", "t">>
StyleName == <<"s", "t", "y", "l", "e">>

\* Where a match of _SCRIPT_STYLE_RE that starts at i ends; 0 when none does.
\* Both quantifiers are lazy: the first ">" after the element name, then the
\* first closer after it.
ScriptMatchEnd(s, i) ==
    IF s[i] # "<" THEN 0
    ELSE
      LET low == Lower(s)
          nameLen == IF IsPrefixAt(low, i + 1, ScriptName) THEN Len(ScriptName)
                     ELSE IF IsPrefixAt(low, i + 1, StyleName) THEN Len(StyleName)
                     ELSE 0
          from == i + 1 + nameLen
          gts == {p \in from..Len(s) : s[p] = ">"}
      IN  IF nameLen = 0 \/ gts = {} THEN 0
          ELSE
            LET closers == {q \in (Min(gts) + 1)..Len(s) :
                              IsPrefixAt(s, q, ScriptCloser)}
            IN  IF closers = {} THEN 0
                ELSE Min(closers) + Len(ScriptCloser) - 1

\* _SCRIPT_STYLE_RE.sub(" ", s)
RECURSIVE ScriptStyleSub(_)
ScriptStyleSub(s) ==
    LET starts == {i \in 1..Len(s) : ScriptMatchEnd(s, i) > 0}
    IN  IF starts = {} THEN s
        ELSE LET i == Min(starts)
             IN  Take(s, i - 1) \o <<" ">>
                   \o ScriptStyleSub(Drop(s, ScriptMatchEnd(s, i)))

\* Where a match of _HTML_TAG_RE = (?s)<[^>]+> that starts at i ends; 0 when
\* none does.
TagMatchEnd(s, i) ==
    IF s[i] # "<" THEN 0
    ELSE
      LET gts == {p \in (i + 1)..Len(s) : s[p] = ">"}
      IN  IF gts = {} \/ Min(gts) = i + 1 THEN 0 ELSE Min(gts)

\* _HTML_TAG_RE.sub(" ", s)
RECURSIVE HtmlTagSub(_)
HtmlTagSub(s) ==
    LET starts == {i \in 1..Len(s) : TagMatchEnd(s, i) > 0}
    IN  IF starts = {} THEN s
        ELSE LET i == Min(starts)
             IN  Take(s, i - 1) \o <<" ">>
                   \o HtmlTagSub(Drop(s, TagMatchEnd(s, i)))

_strip_html(raw) ==
    IF ~Contains(raw, "<") THEN raw
    ELSE HtmlTagSub(ScriptStyleSub(raw))

\* html.unescape, for the named references &lt; &gt; and &amp;.
EntityLt == <<"&", "l", "t", ";">>
EntityGt == <<"&", "g", "t", ";">>
EntityAmp == <<"&", "a", "m", "p", ";">>

EntityLen(s, i) ==
    IF IsPrefixAt(s, i, EntityLt) THEN Len(EntityLt)
    ELSE IF IsPrefixAt(s, i, EntityGt) THEN Len(EntityGt)
    ELSE IF IsPrefixAt(s, i, EntityAmp) THEN Len(EntityAmp)
    ELSE 0

EntityChar(s, i) ==
    IF IsPrefixAt(s, i, EntityLt) THEN "<"
    ELSE IF IsPrefixAt(s, i, EntityGt) THEN ">"
    ELSE "&"

RECURSIVE unescape(_)
RECURSIVE unescape_again(_)

\* Fault: the decoded character is read again as the start of a reference.
unescape_again(s) ==
    LET starts == {i \in 1..Len(s) : s[i] = "&" /\ EntityLen(s, i) > 0}
    IN  IF starts = {} THEN s
        ELSE LET i == Min(starts)
             IN  Take(s, i - 1)
                   \o unescape_again(<<EntityChar(s, i)>>
                                       \o Drop(s, i + EntityLen(s, i) - 1))

unescape(s) ==
    LET starts == {i \in 1..Len(s) : s[i] = "&" /\ EntityLen(s, i) > 0}
    IN  IF starts = {} THEN s
        ELSE LET i == Min(starts)
             IN  Take(s, i - 1) \o <<EntityChar(s, i)>>
                   \o unescape(Drop(s, i + EntityLen(s, i) - 1))

\* text.replace("\x00", " ")
ReplaceNul(s) == [i \in 1..Len(s) |-> IF s[i] = NUL THEN " " ELSE s[i]]

\* re.sub(r"\s+", " ", text): every run of whitespace becomes one space.
CollapseWhitespace(s) ==
    LET indexed == [i \in 1..Len(s) |-> <<i, s[i]>>]
        RunStart(p) == \/ p[2] \notin Whitespace
                       \/ p[1] = 1
                       \/ s[p[1] - 1] \notin Whitespace
        kept == SelectSeq(indexed, RunStart)
    IN  [k \in 1..Len(kept) |->
           IF kept[k][2] \in Whitespace THEN " " ELSE kept[k][2]]

_normalise_text(text) ==
    Strip(CollapseWhitespace(ReplaceNul(unescape(text))))

-----------------------------------------------------------------------------
(* Content Resolver: _download_article_text and _resolve_article_content *)

NoException == "none"

\* The exceptions requests.get and raise_for_status raise that derive from
\* requests.RequestException, and one that does not.
RequestExceptions == {"ConnectionError", "Timeout", "HTTPError"}
OtherException == "OtherException"

\* a or b, for two strings
Or(a, b) == IF a # <<>> THEN a ELSE b

\* The answer of the network for a url: `error` is what requests.get or
\* raise_for_status raises, `textual` whether "text" is in the Content-Type
\* header, `body` is resp.text.
Response(error, textual, body) ==
    [error |-> error, textual |-> textual, body |-> body]

\* Fault: the page is cut to _MAX_REMOTE_CHARS after its tags were removed.
_download_article_text_cut_late(url, n) ==
    IF url = <<>>
    THEN [text |-> <<>>, fetched |-> <<>>, raised |-> NoException]
    ELSE LET resp == n[url] IN
      IF resp.error \in RequestExceptions
      THEN [text |-> <<>>, fetched |-> <<url>>, raised |-> NoException]
      ELSE IF resp.error # NoException
      THEN [text |-> <<>>, fetched |-> <<url>>, raised |-> resp.error]
      ELSE IF ~resp.textual
      THEN [text |-> <<>>, fetched |-> <<url>>, raised |-> NoException]
      ELSE LET text == _strip_html(resp.body)
           IN  [text |-> _normalise_text(
                             IF Len(text) > _MAX_REMOTE_CHARS
                             THEN Take(text, _MAX_REMOTE_CHARS) ELSE text),
                fetched |-> <<url>>, raised |-> NoException]

_download_article_text(url, n) ==
    IF url = <<>>
    THEN [text |-> <<>>, fetched |-> <<>>, raised |-> NoException]
    ELSE LET resp == n[url] IN
      IF resp.error \in RequestExceptions
      THEN [text |-> <<>>, fetched |-> <<url>>, raised |-> NoException]
      ELSE IF resp.error # NoException
      THEN [text |-> <<>>, fetched |-> <<url>>, raised |-> resp.error]
      ELSE IF ~resp.textual
      THEN [text |-> <<>>, fetched |-> <<url>>, raised |-> NoException]
      ELSE LET text == IF Len(resp.body) > _MAX_REMOTE_CHARS
                       THEN Take(resp.body, _MAX_REMOTE_CHARS)
                       ELSE resp.body
           IN  [text |-> _normalise_text(_strip_html(text)),
                fetched |-> <<url>>, raised |-> NoException]

_resolve_article_content(article, n) ==
    LET inline_body == Strip(Or(article.content, article.body))
        url == Strip(article.url)
        remote == _download_article_text(url, n)
        fallback == Strip(Or(article.desc, article.description))
    IN  IF inline_body # <<>>
        THEN [text |-> _normalise_text(_strip_html(inline_body)),
              fetched |-> <<>>, raised |-> NoException]
        ELSE IF remote.raised # NoException \/ remote.text # <<>>
        THEN remote
        ELSE IF fallback # <<>>
        THEN [text |-> _normalise_text(_strip_html(fallback)),
              fetched |-> remote.fetched, raised |-> NoException]
        ELSE [text |-> <<>>, fetched |-> remote.fetched,
              raised |-> NoException]

-----------------------------------------------------------------------------
(* Summarizer Backend: get_summarizer and the callables it returns *)

\* What a call into the transformers library does: it returns, or raises an
\* exception of some type, with or without a response whose status_code is
\* `status`, and with or without one of the indicators of
\* _is_authentication_error in its message.
LibraryResult(type, status, marker) ==
    [type |-> type, status |-> status, marker |-> marker]

Returns == LibraryResult("none", 0, FALSE)

_is_authentication_error(exc) ==
    \/ exc.status \in {401, 403}
    \/ exc.marker

\* The RuntimeErrors get_summarizer raises.
MissingCredentials == "RuntimeError: HF_MODEL and HF_API_TOKEN must be set"
MissingTransformers == "RuntimeError: the transformers package is required"
MissingFramework == "RuntimeError: no deep learning backend is available"
ModelAccessError == "RuntimeError: access to the model is restricted"
UnableToLoad == "RuntimeError: unable to load the model"

\* The values of the module global _summarizer.
None == "None"
Handles == {"_stub", "_summarize", "_generate"}

\* What get_summarizer does, in the order of its code.
ReadSkipFlag == "os.getenv(DAILYNEWS_SKIP_HF)"
ReadSettings == "get_settings().has_hf_credentials"
CheckBackend == "_ensure_transformer_backend_available"
ImportPipeline == "from transformers import pipeline"
LoadSummarization == "pipeline(summarization)"
LoadTextGeneration == "pipeline(text-generation)"

\* settings.has_hf_credentials: whether the credential is configured.
has_hf_credentials(e) == e.creds

\* The outcome of one get_summarizer call: the callable returned (None when
\* it raised), the exception raised, the value of the global afterwards and
\* what was done on the way.
Outcome(handle, exc, cache, done) ==
    [handle |-> handle, raised |-> exc, cache |-> cache, steps |-> done]

_ensure_transformer_backend_available(e) ==
    IF e.runtime = "no_transformers" THEN MissingTransformers
    ELSE IF e.runtime = "no_framework" THEN MissingFramework
    ELSE NoException

\* Fault: the global is assigned before the fallback is known to load.
LoadGeneratorCachingFailure(e, done) ==
    LET did == done \o <<LoadTextGeneration>> IN
    IF e.text_generation.type = "none"
    THEN Outcome("_generate", NoException, "_generate", did)
    ELSE IF _is_authentication_error(e.text_generation)
    THEN Outcome(None, ModelAccessError, "_generate", did)
    ELSE Outcome(None, UnableToLoad, "_generate", did)

\* Lines 239-265: the text-generation fallback.
LoadGenerator(e, done) ==
    LET did == done \o <<LoadTextGeneration>> IN
    IF e.text_generation.type = "none"
    THEN Outcome("_generate", NoException, "_generate", did)
    ELSE IF _is_authentication_error(e.text_generation)
    THEN Outcome(None, ModelAccessError, None, did)
    ELSE Outcome(None, UnableToLoad, None, did)

\* Lines 210-237: the summarization pipeline.
LoadPipeline(e, done) ==
    LET did == done \o <<LoadSummarization>> IN
    IF e.summarization.type = "none"
    THEN Outcome("_summarize", NoException, "_summarize", did)
    ELSE IF _is_authentication_error(e.summarization)
    THEN Outcome(None, ModelAccessError, None, did)
    ELSE LoadGenerator(e, did)

\* Fault: the inference runtime is checked before the credential.
ConstructBackendFirst(e) ==
    IF e.skip
    THEN Outcome("_stub", NoException, "_stub", <<ReadSkipFlag>>)
    ELSE IF _ensure_transformer_backend_available(e) # NoException
    THEN Outcome(None, _ensure_transformer_backend_available(e), None,
                 <<ReadSkipFlag, CheckBackend>>)
    ELSE IF ~has_hf_credentials(e)
    THEN Outcome(None, MissingCredentials, None,
                 <<ReadSkipFlag, CheckBackend, ReadSettings>>)
    ELSE IF e.runtime = "no_pipeline"
    THEN Outcome(None, MissingTransformers, None,
                 <<ReadSkipFlag, CheckBackend, ReadSettings, ImportPipeline>>)
    ELSE LoadPipeline(e, <<ReadSkipFlag, CheckBackend, ReadSettings,
                           ImportPipeline>>)

\* Lines 186-265: selection and construction, reached with the global unset.
Construct(e) ==
    IF e.skip
    THEN Outcome("_stub", NoException, "_stub", <<ReadSkipFlag>>)
    ELSE IF ~has_hf_credentials(e)
    THEN Outcome(None, MissingCredentials, None, <<ReadSkipFlag, ReadSettings>>)
    ELSE IF _ensure_transformer_backend_available(e) # NoException
    THEN Outcome(None, _ensure_transformer_backend_available(e), None,
                 <<ReadSkipFlag, ReadSettings, CheckBackend>>)
    ELSE IF e.runtime = "no_pipeline"
    THEN Outcome(None, MissingTransformers, None,
                 <<ReadSkipFlag, ReadSettings, CheckBackend, ImportPipeline>>)
    ELSE LoadPipeline(e, <<ReadSkipFlag, ReadSettings, CheckBackend,
                           ImportPipeline>>)

\* Fault: the cached callable is ignored.
get_summarizer_uncached(cache, e) == Construct(e)

get_summarizer(cache, e) ==
    IF cache # None
    THEN Outcome(cache, NoException, cache, <<>>)
    ELSE Construct(e)

SKIPPED ==
    <<"S", "u", "m", "m", "a", "r", "i", "z", "a", "t", "i", "o",
      "n", " ", "s", "k", "i", "p", "p", "e", "d", " ", "(", "D",
      "A", "I", "L", "Y", "N", "E", "W", "S", "_", "S", "K", "I",
      "P", "_", "H", "F", "=", "1", ")", ".">>

SKIP_FLAG_NAME ==
    <<"D", "A", "I", "L", "Y", "N", "E", "W", "S", "_", "S", "K",
      "I", "P", "_", "H", "F">>

\* _build_prompt: each fixed part of the prompt is one character.
_build_prompt(bullet_text) ==
    <<"Summarize the following recent news headlines:\n">>
      \o (IF Strip(bullet_text) # <<>> THEN Strip(bullet_text)
          ELSE <<"- (no headlines provided)">>)
      \o <<"\nKeep it factual and brief.">>

\* One call summarizer(content, bullet_line) of a callable get_summarizer
\* returned.  `lib` is what the pipeline object does when called: it raises
\* lib.exc or returns lib.text, after the prompt when lib.echo.
\* The answer: the exception leaving the callable and the text returned.
Answer(exc, text) == [raised |-> exc, text |-> text]

\* Fault: the stub hands the content back.
_stub_echoing(content, bullet_line) == Answer(NoException, content)

_stub(content, bullet_line) == Answer(NoException, SKIPPED)

_summarize(content, bullet_line, lib) ==
    IF lib.exc.type # "none" THEN Answer(lib.exc.type, <<>>)
    ELSE Answer(NoException, Strip(lib.text))

_generate(content, bullet_line, lib) ==
    LET prompt == _build_prompt(bullet_line)
        generated == IF lib.echo THEN prompt \o lib.text ELSE lib.text
    IN  IF lib.exc.type # "none" THEN Answer(lib.exc.type, <<>>)
        ELSE IF IsPrefixAt(generated, 1, prompt)
        THEN Answer(NoException, Strip(Drop(generated, Len(prompt))))
        ELSE Answer(NoException, Strip(generated))

Invoke(handle, content, bullet_line, lib) ==
    IF handle = "_stub" THEN _stub(content, bullet_line)
    ELSE IF handle = "_summarize" THEN _summarize(content, bullet_line, lib)
    ELSE _generate(content, bullet_line, lib)

-----------------------------------------------------------------------------
(* Article Preparer: PreparedArticle and _prepare_articles *)

UNTITLED == <<"(", "u", "n", "t", "i", "t", "l", "e", "d", ")">>

PreparedArticle(title, link_text, content) ==
    [title |-> title, link_text |-> link_text, content |-> content]

bullet_line(item) == <<"-", " ">> \o item.title \o item.link_text

\* Fault: the content is kept whole.
PrepareWithoutBudget(article, content) ==
    LET raw_title == Strip(article.title)
        url == Strip(article.url)
        link_target == Or(url, Strip(article.source_domain))
    IN  PreparedArticle(
            IF raw_title # <<>> THEN raw_title ELSE UNTITLED,
            IF link_target # <<>> THEN <<" ", "(">> \o link_target \o <<")">>
            ELSE <<>>,
            content)

\* Lines 277-293: the PreparedArticle of an article whose content resolved to
\* the non-empty text `content`.
Prepare(article, content) ==
    LET raw_title == Strip(article.title)
        url == Strip(article.url)
        link_target == Or(url, Strip(article.source_domain))
    IN  PreparedArticle(
            IF raw_title # <<>> THEN raw_title ELSE UNTITLED,
            IF link_target # <<>> THEN <<" ", "(">> \o link_target \o <<")">>
            ELSE <<>>,
            IF Len(content) > _MAX_CHARS THEN Take(content, _MAX_CHARS)
            ELSE content)

\* The loop of _prepare_articles after its first k iterations: the list built,
\* the urls requested, and the exception that ended the loop early.
RECURSIVE PrepareLoop(_, _, _)
PrepareLoop(arts, n, k) ==
    IF k = 0
    THEN [prepared |-> <<>>, fetched |-> <<>>, raised |-> NoException]
    ELSE LET before == PrepareLoop(arts, n, k - 1)
             got == _resolve_article_content(arts[k], n)
         IN  IF before.raised # NoException THEN before
             ELSE [prepared |-> IF got.raised = NoException /\ got.text # <<>>
                                THEN Append(before.prepared,
                                            Prepare(arts[k], got.text))
                                ELSE before.prepared,
                   fetched |-> before.fetched \o got.fetched,
                   raised |-> got.raised]

\* Fault: the cap of _MAX_ARTICLES is not applied.
_prepare_articles_uncapped(arts, n) == PrepareLoop(arts, n, Len(arts))

_prepare_articles(arts, n) ==
    PrepareLoop(arts, n, IF Len(arts) > _MAX_ARTICLES THEN _MAX_ARTICLES
                         ELSE Len(arts))

-----------------------------------------------------------------------------
(* Pipeline Orchestrator: summarize_articles and summarize_by_topic *)

\* f"{item.bullet_line}\n  {summary}"
Block(item, summary) == bullet_line(item) \o <<"\n", " ", " ">> \o summary

\* "\n".join(blocks)
RECURSIVE Join(_)
Join(blocks) ==
    IF blocks = <<>> THEN <<>>
    ELSE IF Len(blocks) = 1 THEN blocks[1]
    ELSE blocks[1] \o <<"\n">> \o Join(Tail(blocks))

\* Fault: the empty briefing is returned as it is.
BriefingWithoutSentinel(blocks) == Join(blocks)

\* Lines 325-328
Briefing(blocks) == IF blocks = <<>> THEN NO_NEWS ELSE Join(blocks)

\* Fault: a block is appended whatever the summary.
AppendBlockAlways(blocks, item, summary) ==
    Append(blocks, Block(item, summary))

\* Lines 321-323: the block of an article is appended unless its trimmed
\* summary is empty.
AppendBlock(blocks, item, summary) ==
    IF summary = <<>> THEN blocks ELSE Append(blocks, Block(item, summary))

\* Line 318: item.content[:200]
Degraded(content) ==
    IF Len(content) > DEGRADED_CHARS THEN Take(content, DEGRADED_CHARS)
    ELSE content

\* Line 337: f"{art.get('title','')} {art.get('desc','')}".lower()
TopicText(art) == Lower(art.title \o <<" ">> \o art.desc)

\* Line 339
Matches(topic, art) == IsSubstring(Lower(topic), TopicText(art))

\* grouped[topic].append(art) on a defaultdict(list), which keeps its keys in
\* the order of their first use.
GroupAppend(grouped, topic, art) ==
    IF \E k \in 1..Len(grouped) : grouped[k].topic = topic
    THEN [k \in 1..Len(grouped) |->
            IF grouped[k].topic = topic
            THEN [topic |-> topic, arts |-> Append(grouped[k].arts, art)]
            ELSE grouped[k]]
    ELSE Append(grouped, [topic |-> topic, arts |-> <<art>>])

\* Lines 335-340 after the first p passes of the inner loop body, counted
\* over both loops.
RECURSIVE GroupLoop(_, _, _)
GroupLoop(ts, arts, p) ==
    IF p = 0 THEN <<>>
    ELSE LET before == GroupLoop(ts, arts, p - 1)
             art == arts[((p - 1) \div Len(ts)) + 1]
             topic == ts[((p - 1) % Len(ts)) + 1]
         IN  IF Matches(topic, art) THEN GroupAppend(before, topic, art)
             ELSE before

Grouped(ts, arts) == GroupLoop(ts, arts, Len(ts) * Len(arts))

-----------------------------------------------------------------------------
(* Inputs *)

MaxBatch == 2
MaxTopics == 2

RECURSIVE SeqsUpTo(_, _)
SeqsUpTo(S, n) ==
    IF n = 0 THEN {<<>>}
    ELSE LET shorter == SeqsUpTo(S, n - 1)
         IN  shorter \cup {Append(q, x) : q \in {r \in shorter : Len(r) = n - 1},
                                          x \in S}

Article(title, url, source_domain, content, body, desc, description) ==
    [title |-> title, url |-> url, source_domain |-> source_domain,
     content |-> content, body |-> body, desc |-> desc,
     description |-> description]

U1 == <<"u", "1">>
U2 == <<"u", "2">>
U3 == <<"u", "3">>
Urls == {U1, U2, U3}

\* Content longer than the degraded summary of a failed backend call.
LongText == [i \in 1..(DEGRADED_CHARS + 1) |-> IF i % 7 = 0 THEN " " ELSE "a"]

\* Pages longer than _MAX_REMOTE_CHARS: `fill` up to position `at`, the text
\* `mark` from there, then `fill` up to three characters past the limit.
Page(fill, at, mark) ==
    [i \in 1..(_MAX_REMOTE_CHARS + 3) |->
       IF i >= at /\ i < at + Len(mark) THEN mark[i - at + 1] ELSE fill]

\* A tag across the limit, a tag that closes only past the limit, and text
\* past the limit.
LongPages ==
    {Page("a", _MAX_REMOTE_CHARS - 1, <<"<", "b", ">", "x">>),
     <<"<">> \o Page("a", _MAX_REMOTE_CHARS + 1, <<">", "y">>),
     Page("a", _MAX_REMOTE_CHARS + 1, <<"z">>)}

\* What the network can answer.
Responses ==
    {Response(x, TRUE, <<"r">>) : x \in RequestExceptions \cup {OtherException}}
      \cup {Response(NoException, FALSE, <<"r">>)}
      \cup {Response(NoException, TRUE, b) :
              b \in {<<>>, <<"<", "i", ">", "<", "/", "i", ">">>,
                     <<"<", "p", ">", "r", " ", "\n", "&", "l", "t", ";",
                       "<", "/", "p", ">">>}}

\* The articles content resolution is applied to on its own.
\* <script>x</script>y and <STYLE a>x</\1>y
ScriptElement ==
    <<"<", "s", "c", "r", "i", "p", "t", ">", "x",
      "<", "/", "s", "c", "r", "i", "p", "t", ">", "y">>
StyleElement ==
    <<"<", "S", "T", "Y", "L", "E", " ", "a", ">", "x",
      "<", "/", "\\", "1", ">", "y">>

ResolveArticles ==
    {Article(<<>>, u, <<>>, c, b, d, e) :
        u \in {<<>>, U1},
        c \in {<<>>, <<" ">>, <<"a">>, <<"<", "b", ">">>, <<NUL>>,
               ScriptElement, StyleElement},
        b \in {<<>>, <<"b">>},
        d \in {<<>>, <<" ">>, <<"d", " ", " ", "d">>},
        e \in {<<>>, <<"e">>}}

ResolveNets == {[u \in Urls |-> r] : r \in Responses}

\* The long pages are fetched for an article with a url only and for one
\* with a url and a desc.
LongPageNets ==
    {[u \in Urls |-> Response(NoException, TRUE, b)] : b \in LongPages}
LongPageArticles ==
    {Article(<<>>, U1, <<>>, <<>>, <<>>, d, <<>>) : d \in {<<>>, <<"d">>}}

ResolveInputs ==
    ({<<a>> : a \in ResolveArticles} \X ResolveNets)
      \cup ({<<a>> : a \in LongPageArticles} \X LongPageNets)

\* The articles of the pipeline runs.
InlineArticle ==
    Article(<<"E", "c", "o">>, <<>>, <<"s", "d">>, <<"<", "b", ">", "a", "b">>,
            <<>>, <<>>, <<>>)
UrlArticle ==
    Article(<<"P", "o", "l">>, U1, <<>>, <<>>, <<>>, <<"e", "c", "o">>, <<>>)
BrokenUrlArticle ==
    Article(<<>>, U2, <<>>, <<>>, <<>>, <<>>, <<"p", "o", "l">>)
EmptyArticle ==
    Article(<<"e", "c", "o">>, <<>>, <<>>, <<" ">>, <<"b">>, <<" ">>, <<>>)
LongArticle ==
    Article(<<" ">>, <<>>, <<>>, <<>>, LongText, <<"p", "o", "l">>, <<>>)

RaisingUrlArticle ==
    Article(<<"z">>, U3, <<>>, <<>>, <<>>, <<"d">>, <<>>)

ArticlePool ==
    {InlineArticle, UrlArticle, BrokenUrlArticle, EmptyArticle, LongArticle,
     RaisingUrlArticle}

TopicArticlePool ==
    {InlineArticle, UrlArticle, EmptyArticle, BrokenUrlArticle}
TopicBatches == SeqsUpTo(TopicArticlePool, MaxBatch)

\* Batches longer than _MAX_ARTICLES.  The articles carry their position in
\* the title; every third one has only a url, the one at position `gap` (the
\* first, the last considered, or none) has nothing to resolve and the
\* others have inline content.
MaxLongBatch == 7

Digit(i) == <<"1", "2", "3", "4", "5", "6", "7", "8", "9">>[i]

Numbered(i, gap) ==
    IF i = gap
    THEN Article(<<Digit(i)>>, <<>>, <<>>, <<>>, <<>>, <<>>, <<>>)
    ELSE IF i % 3 = 0
    THEN Article(<<Digit(i)>>, U1, <<>>, <<>>, <<>>, <<>>, <<>>)
    ELSE Article(<<Digit(i)>>, <<>>, <<>>, <<"c", Digit(i)>>, <<>>, <<>>, <<>>)

LongBatches ==
    UNION {{[i \in 1..n |-> Numbered(i, gap)] : gap \in {0, 1, _MAX_ARTICLES}} :
             n \in _MAX_ARTICLES..MaxLongBatch}

\* Inline text longer than _MAX_CHARS, with a space at every tenth position
\* and so at position _MAX_CHARS.
BigText == [i \in 1..(_MAX_CHARS + 3) |-> IF i % 10 = 0 THEN " " ELSE "a"]

BigArticle == Article(<<"B">>, <<>>, <<>>, <<>>, BigText, <<>>, <<>>)

BigBatches ==
    {<<BigArticle>>, <<BigArticle, BigArticle>>, <<BigArticle, InlineArticle>>,
     <<EmptyArticle, BigArticle>>}

Batches == SeqsUpTo(ArticlePool, MaxBatch) \cup LongBatches \cup BigBatches

TopicPool == {<<"e", "c", "o">>, <<"P", "O", "L">>, <<"z">>}
TopicLists == SeqsUpTo(TopicPool, MaxTopics)

\* The network of the pipeline runs: one page, one timeout and one failure
\* that is no requests.RequestException.
PipelineNet ==
    [u \in Urls |->
       IF u = U1 THEN Response(NoException, TRUE, <<"<", "p", ">", "r", "<", "/", "p", ">">>)
       ELSE IF u = U2 THEN Response("Timeout", TRUE, <<>>)
       ELSE Response(OtherException, TRUE, <<>>)]

\* What loading a pipeline can do.
LoadResults ==
    {Returns, LibraryResult("Exception", 401, FALSE),
     LibraryResult("Exception", 0, TRUE), LibraryResult("Exception", 0, FALSE)}

Environment(skip, creds, runtime, summarization, text_generation) ==
    [skip |-> skip, creds |-> creds, runtime |-> runtime,
     summarization |-> summarization, text_generation |-> text_generation]

Runtimes == {"no_transformers", "no_framework", "no_pipeline", "ok"}

Envs ==
    {Environment(k, c, r, s, g) :
        k \in BOOLEAN, c \in BOOLEAN, r \in Runtimes,
        s \in LoadResults, g \in LoadResults}

PipelineEnvs ==
    {Environment(TRUE, FALSE, "no_transformers", Returns, Returns),
     Environment(FALSE, FALSE, "ok", Returns, Returns),
     Environment(FALSE, TRUE, "ok", Returns, Returns),
     Environment(FALSE, TRUE, "ok", LibraryResult("Exception", 0, FALSE),
                 Returns)}

\* What a loaded pipeline can do when it is called.
Behaviour(exc, text, echo) == [exc |-> exc, text |-> text, echo |-> echo]

Quiet == Behaviour(Returns, <<"s">>, FALSE)

CallExceptions ==
    {LibraryResult("Exception", 0, FALSE), LibraryResult("Exception", 403, FALSE),
     LibraryResult("Exception", 0, TRUE), LibraryResult("TypeError", 0, FALSE)}

LibraryBehaviours ==
    {Behaviour(Returns, t, e) :
        t \in {<<>>, <<" ", "\n">>, <<" ", "s", " ">>}, e \in BOOLEAN}
      \cup {Behaviour(x, <<>>, FALSE) : x \in CallExceptions}
      \cup {Quiet}

LoopBehaviours ==
    {Quiet, Behaviour(Returns, <<" ", "\n">>, TRUE),
     Behaviour(LibraryResult("Exception", 0, FALSE), <<>>, FALSE),
     Behaviour(LibraryResult("TypeError", 0, FALSE), <<>>, FALSE)}

\* The texts of the round trip through _strip_html and _normalise_text: up
\* to MaxTokens pieces of markup, text, whitespace and character references.
MaxTokens == 4

Tokens ==
    {<<"<">>, <<">">>, <<"a">>, <<" ">>, EntityLt, EntityGt, EntityAmp,
     <<"l", "t", ";">>}

RECURSIVE TextsOf(_)
TextsOf(n) ==
    IF n = 0 THEN {<<>>}
    ELSE TextsOf(n - 1) \cup {x \o t : x \in TextsOf(n - 1), t \in Tokens}

RoundTripTexts == TextsOf(MaxTokens)

-----------------------------------------------------------------------------
(* State *)

\* The threads of the process that call get_summarizer.
MaxCallers == 2

Callers == 1..MaxCallers

\* One thread: where it is in get_summarizer, the callable it last obtained,
\* the exception its last call raised, and how many times it has assigned the
\* global since the global was last reset.
Caller(at, handle, exc, writes) ==
    [pc |-> at, handle |-> handle, raised |-> exc, writes |-> writes]

NoCallers == [c \in Callers |-> Caller("idle", None, NoException, 0)]

\* The caller's locals before and between calls.
NoCall ==
    /\ pc = "idle"
    /\ op = "none"
    /\ articles = <<>>
    /\ prepared = <<>>
    /\ idx = 0
    /\ summaries = <<>>
    /\ outcomes = <<>>
    /\ result = <<>>
    /\ raised = NoException
    /\ summarizer = None
    /\ fetched = <<>>
    /\ steps = <<>>
    /\ obtains = 0
    /\ topics = <<>>
    /\ topicArticles = <<>>
    /\ pending = <<>>
    /\ topicSummaries = <<>>
    /\ callers = NoCallers

\* A process that has imported the module and is about to summarise.
Init ==
    /\ env \in PipelineEnvs
    /\ net = PipelineNet
    /\ _summarizer = None
    /\ NoCall

\* A process that has imported the module and is about to use the backend.
InitBackend ==
    /\ env \in Envs
    /\ net = PipelineNet
    /\ _summarizer = None
    /\ NoCall

\* One article about to be resolved.
InitResolve ==
    /\ env \in PipelineEnvs
    /\ \E input \in ResolveInputs : articles = input[1] /\ net = input[2]
    /\ _summarizer = None
    /\ pc = "idle"
    /\ op = "none"
    /\ prepared = <<>>
    /\ idx = 0
    /\ summaries = <<>>
    /\ outcomes = <<>>
    /\ result = <<>>
    /\ raised = NoException
    /\ summarizer = None
    /\ fetched = <<>>
    /\ steps = <<>>
    /\ obtains = 0
    /\ topics = <<>>
    /\ topicArticles = <<>>
    /\ pending = <<>>
    /\ topicSummaries = <<>>
    /\ callers = NoCallers

\* A text to clean, held as the content of one article.
InitRoundTrip ==
    /\ env \in {Quiet}
    /\ net = PipelineNet
    /\ \E x \in RoundTripTexts :
         articles = <<Article(<<>>, <<>>, <<>>, x, <<>>, <<>>, <<>>)>>
    /\ _summarizer = None
    /\ pc = "idle"
    /\ op = "none"
    /\ prepared = <<>>
    /\ idx = 0
    /\ summaries = <<>>
    /\ outcomes = <<>>
    /\ result = <<>>
    /\ raised = NoException
    /\ summarizer = None
    /\ fetched = <<>>
    /\ steps = <<>>
    /\ obtains = 0
    /\ topics = <<>>
    /\ topicArticles = <<>>
    /\ pending = <<>>
    /\ topicSummaries = <<>>
    /\ callers = NoCallers

-----------------------------------------------------------------------------
(* Content resolution on its own *)

ResolveContent ==
    /\ pc = "idle"
    /\ Len(articles) = 1
    /\ LET got == _resolve_article_content(articles[1], net)
       IN  /\ result' = got.text
           /\ fetched' = got.fetched
           /\ raised' = got.raised
    /\ pc' = "done"
    /\ op' = "_resolve_article_content"
    /\ UNCHANGED <<env, net, _summarizer, articles, prepared, idx, summaries,
                   outcomes, summarizer, steps, obtains, topics,
                   topicArticles, pending, topicSummaries>>
    /\ UNCHANGED callers

-----------------------------------------------------------------------------
(* The Text Normalizer on its own: _strip_html, _normalise_text, _strip_html *)

\* The text is left in `result` by each call.
Cleaning(from, to, name, text) ==
    /\ pc = from
    /\ result' = text
    /\ pc' = to
    /\ op' = name
    /\ UNCHANGED <<env, net, _summarizer, articles, prepared, idx, summaries,
                   outcomes, raised, summarizer, fetched, steps, obtains,
                   topics, topicArticles, pending, topicSummaries, callers>>

StripHtml ==
    Cleaning("idle", "stripped", "_strip_html",
             _strip_html(articles[1].content))

NormaliseText ==
    Cleaning("stripped", "normalised", "_normalise_text",
             _normalise_text(result))

StripHtmlAgain ==
    Cleaning("normalised", "stripped again", "_strip_html",
             _strip_html(result))

-----------------------------------------------------------------------------
(* The backend used directly *)

\* summarizer = get_summarizer()
CallGetSummarizer ==
    /\ pc = "idle"
    /\ articles = <<>>
    /\ LET got == get_summarizer(_summarizer, env)
       IN  /\ _summarizer' = got.cache
           /\ summarizer' = got.handle
           /\ raised' = got.raised
           /\ steps' = got.steps
    /\ pc' = "done"
    /\ op' = "get_summarizer"
    /\ obtains' = 1
    /\ UNCHANGED <<env, net, articles, prepared, idx, summaries, outcomes,
                   result, fetched, topics, topicArticles, pending,
                   topicSummaries>>
    /\ UNCHANGED callers

\* The record of one call of the callable: which callable, what the library
\* raised inside it, how many times it was invoked, what left it and the
\* summary kept.
Called(item, handle, lib, calls, exc, degraded, summary) ==
    [item |-> item, handle |-> handle, lib |-> lib, calls |-> calls,
     raised |-> exc, degraded |-> degraded, summary |-> summary]

\* summarizer(content, bullet_line), on the callable just obtained
CallSummarizer ==
    /\ pc = "done"
    /\ op = "get_summarizer"
    /\ summarizer \in Handles
    /\ \E content \in {<<"c">>, LongText}, bullet \in {<<>>, <<"-", " ", "t">>},
          lib \in LibraryBehaviours :
         LET answer == Invoke(summarizer, content, bullet, lib)
         IN  /\ summarizer = "_stub" => lib = Quiet
             /\ outcomes' = <<Called(0, summarizer, lib.exc, 1, answer.raised,
                                     FALSE, answer.text)>>
             /\ result' = answer.text
             /\ raised' = answer.raised
    /\ op' = "summarizer"
    /\ UNCHANGED <<env, net, _summarizer, pc, articles, prepared, idx,
                   summaries, summarizer, fetched, steps, obtains, topics,
                   topicArticles, pending, topicSummaries>>
    /\ UNCHANGED callers

\* os.environ, the settings or the installed packages change between calls.
ChangeEnvironment ==
    /\ pc = "idle"
    /\ \E e \in Envs : e # env /\ env' = e
    /\ UNCHANGED <<net, _summarizer, pc, op, articles, prepared, idx,
                   summaries, outcomes, result, raised, summarizer, fetched,
                   steps, obtains, topics, topicArticles, pending,
                   topicSummaries>>
    /\ UNCHANGED callers

\* summarizer._summarizer = None (tests/conftest.py)
ResetSummarizer ==
    /\ pc = "idle"
    /\ articles = <<>>
    /\ _summarizer # None
    /\ _summarizer' = None
    /\ UNCHANGED <<env, net, pc, op, articles, prepared, idx, summaries,
                   outcomes, result, raised, summarizer, fetched, steps,
                   obtains, topics, topicArticles, pending, topicSummaries>>
    /\ UNCHANGED callers

\* The caller is done with the value returned or the exception raised.
Return ==
    /\ pc = "done"
    /\ op # "_resolve_article_content"
    /\ pc' = "idle"
    /\ op' = "none"
    /\ articles' = <<>>
    /\ prepared' = <<>>
    /\ idx' = 0
    /\ summaries' = <<>>
    /\ outcomes' = <<>>
    /\ result' = <<>>
    /\ raised' = NoException
    /\ summarizer' = None
    /\ fetched' = <<>>
    /\ steps' = <<>>
    /\ obtains' = 0
    /\ topics' = <<>>
    /\ topicArticles' = <<>>
    /\ pending' = <<>>
    /\ topicSummaries' = <<>>
    /\ UNCHANGED <<env, net, _summarizer>>
    /\ UNCHANGED callers

-----------------------------------------------------------------------------
(* The pipeline *)

\* summarize_articles returns `text`: to the caller, or into
\* summaries[topic] of summarize_by_topic (line 344).
Deliver(operation, text) ==
    IF operation = "summarize_articles"
    THEN /\ result' = text
         /\ pc' = "done"
         /\ UNCHANGED <<pending, topicSummaries>>
    ELSE /\ topicSummaries' =
               Append(topicSummaries,
                      [topic |-> Head(pending).topic, summary |-> text])
         /\ pending' = Tail(pending)
         /\ pc' = "topic"
         /\ UNCHANGED result

\* An exception leaves summarize_articles, and summarize_by_topic with it.
Propagate ==
    /\ pc' = "done"
    /\ UNCHANGED <<result, pending, topicSummaries>>

\* Fault: the backend is obtained whether or not an article was prepared.
EnterObtainingAlways(operation, arts) ==
    LET prep == _prepare_articles(arts, net) IN
    /\ articles' = arts
    /\ idx' = 1
    /\ summaries' = <<>>
    /\ outcomes' = <<>>
    /\ obtains' = 0
    /\ IF arts = <<>>
       THEN /\ prepared' = <<>>
            /\ fetched' = <<>>
            /\ raised' = NoException
            /\ Deliver(operation, NO_NEWS)
       ELSE /\ prepared' = prep.prepared
            /\ fetched' = prep.fetched
            /\ raised' = prep.raised
            /\ IF prep.raised # NoException THEN Propagate
               ELSE /\ pc' = "get_summarizer"
                    /\ UNCHANGED <<result, pending, topicSummaries>>

\* Lines 301-306 of summarize_articles(arts)
Enter(operation, arts) ==
    LET prep == _prepare_articles(arts, net) IN
    /\ articles' = arts
    /\ idx' = 1
    /\ summaries' = <<>>
    /\ outcomes' = <<>>
    /\ obtains' = 0
    /\ IF arts = <<>>
       THEN /\ prepared' = <<>>
            /\ fetched' = <<>>
            /\ raised' = NoException
            /\ Deliver(operation, NO_NEWS)
       ELSE /\ prepared' = prep.prepared
            /\ fetched' = prep.fetched
            /\ raised' = prep.raised
            /\ IF prep.raised # NoException THEN Propagate
               ELSE IF prep.prepared = <<>> THEN Deliver(operation, NO_NEWS)
               ELSE /\ pc' = "get_summarizer"
                    /\ UNCHANGED <<result, pending, topicSummaries>>

CallSummarizeArticles ==
    /\ pc = "idle"
    /\ \E arts \in Batches : Enter("summarize_articles", arts)
    /\ op' = "summarize_articles"
    /\ UNCHANGED <<env, net, _summarizer, summarizer, steps, topics,
                   topicArticles>>
    /\ UNCHANGED callers

\* Line 308
ObtainSummarizer ==
    /\ pc = "get_summarizer"
    /\ LET got == get_summarizer(_summarizer, env)
       IN  /\ _summarizer' = got.cache
           /\ summarizer' = got.handle
           /\ raised' = got.raised
           /\ steps' = got.steps
           /\ pc' = IF got.raised # NoException THEN "done" ELSE "loop"
    /\ obtains' = obtains + 1
    /\ UNCHANGED <<env, net, op, articles, prepared, idx, summaries, outcomes,
                   result, fetched, topics, topicArticles, pending,
                   topicSummaries>>
    /\ UNCHANGED callers

\* summarizer(item.content): none of the callables get_summarizer returns
\* takes a single argument, so the call raises TypeError before it runs.
InvokeWithContentOnly(handle, content) == Answer("TypeError", <<>>)

\* Lines 312-323: one pass of the loop over prepared_articles.
SummarizeItem ==
    /\ pc = "loop"
    /\ idx <= Len(prepared)
    /\ \E lib \in LoopBehaviours :
         LET item == prepared[idx]
             first == Invoke(summarizer, item.content, bullet_line(item), lib)
             retried == first.raised = "TypeError"
             second == InvokeWithContentOnly(summarizer, item.content)
             degraded == ~retried /\ first.raised # NoException
             summary == Strip(IF retried THEN second.text
                              ELSE IF degraded
                              THEN Degraded(item.content)
                              ELSE first.text)
             escaped == IF retried THEN second.raised ELSE NoException
         IN  /\ summarizer = "_stub" => lib = Quiet
             /\ outcomes' = Append(outcomes,
                                   Called(idx, summarizer, lib.exc,
                                          IF retried THEN 2 ELSE 1,
                                          first.raised, degraded, summary))
             /\ raised' = escaped
             /\ IF escaped # NoException
                THEN /\ pc' = "done"
                     /\ UNCHANGED <<idx, summaries>>
                ELSE /\ pc' = "loop"
                     /\ idx' = idx + 1
                     /\ summaries' = AppendBlock(summaries, item, summary)
    /\ UNCHANGED <<env, net, _summarizer, op, articles, prepared, result,
                   summarizer, fetched, steps, obtains, topics, topicArticles,
                   pending, topicSummaries>>
    /\ UNCHANGED callers

\* Lines 325-328
Finish ==
    /\ pc = "loop"
    /\ idx > Len(prepared)
    /\ Deliver(op, Briefing(summaries))
    /\ UNCHANGED <<env, net, _summarizer, op, articles, prepared, idx,
                   summaries, outcomes, raised, summarizer, fetched, steps,
                   obtains, topics, topicArticles>>
    /\ UNCHANGED callers

\* Lines 335-340 of summarize_by_topic(ts, arts)
CallSummarizeByTopic ==
    /\ pc = "idle"
    /\ \E ts \in TopicLists, arts \in TopicBatches :
         /\ topics' = ts
         /\ topicArticles' = arts
         /\ pending' = Grouped(ts, arts)
    /\ topicSummaries' = <<>>
    /\ op' = "summarize_by_topic"
    /\ pc' = "topic"
    /\ UNCHANGED <<env, net, _summarizer, articles, prepared, idx, summaries,
                   outcomes, result, raised, summarizer, fetched, steps,
                   obtains>>
    /\ UNCHANGED callers

\* Lines 343-345: the next group is summarised, or the dict is returned.
NextTopic ==
    /\ pc = "topic"
    /\ IF pending = <<>>
       THEN /\ pc' = "done"
            /\ UNCHANGED <<articles, prepared, idx, summaries, outcomes,
                           result, raised, fetched, obtains, pending,
                           topicSummaries>>
       ELSE Enter("summarize_by_topic", Head(pending).arts)
    /\ UNCHANGED <<env, net, _summarizer, op, summarizer, steps, topics,
                   topicArticles>>
    /\ UNCHANGED callers

-----------------------------------------------------------------------------
(* get_summarizer called from several threads *)

\* Lines 182-184: the thread reads the global, and returns it when it is set.
CheckCached(c) ==
    /\ pc = "idle"
    /\ articles = <<>>
    /\ callers[c].pc = "idle"
    /\ LET got == get_summarizer(_summarizer, env)
       IN  callers' =
             [callers EXCEPT ![c] =
                IF got.steps = <<>>
                THEN Caller("returned", got.handle, NoException, @.writes)
                ELSE Caller("constructing", None, NoException, @.writes)]
    /\ UNCHANGED <<env, net, _summarizer, pc, op, articles, prepared, idx,
                   summaries, outcomes, result, raised, summarizer, fetched,
                   steps, obtains, topics, topicArticles, pending,
                   topicSummaries>>

\* Lines 186-265, run by a thread that found the global unset: it selects
\* and constructs, assigns the global when it has a callable, and returns
\* or raises.
ConstructAndStore(c) ==
    /\ callers[c].pc = "constructing"
    /\ LET got == get_summarizer(None, env)
       IN  /\ _summarizer' = IF got.cache # None THEN got.cache
                              ELSE _summarizer
           /\ callers' =
                [callers EXCEPT ![c] =
                   Caller("returned", got.handle, got.raised,
                          IF got.cache # None THEN @.writes + 1
                          ELSE @.writes)]
    /\ UNCHANGED <<env, net, pc, op, articles, prepared, idx, summaries,
                   outcomes, result, raised, summarizer, fetched, steps,
                   obtains, topics, topicArticles, pending, topicSummaries>>

\* The thread goes on, and may call get_summarizer again.
Resume(c) ==
    /\ callers[c].pc = "returned"
    /\ callers' = [callers EXCEPT ![c].pc = "idle"]
    /\ UNCHANGED <<env, net, _summarizer, pc, op, articles, prepared, idx,
                   summaries, outcomes, result, raised, summarizer, fetched,
                   steps, obtains, topics, topicArticles, pending,
                   topicSummaries>>

\* summarizer._summarizer = None (tests/conftest.py), with no call running.
ResetBetweenCalls ==
    /\ _summarizer # None
    /\ \A c \in Callers : callers[c].pc = "idle"
    /\ _summarizer' = None
    /\ callers' = NoCallers
    /\ UNCHANGED <<env, net, pc, op, articles, prepared, idx, summaries,
                   outcomes, result, raised, summarizer, fetched, steps,
                   obtains, topics, topicArticles, pending, topicSummaries>>

-----------------------------------------------------------------------------
(* Specifications *)

Next ==
    \/ CallSummarizeArticles
    \/ ObtainSummarizer
    \/ SummarizeItem
    \/ Finish
    \/ Return

Spec == Init /\ [][Next]_vars

NextTopics ==
    \/ CallSummarizeByTopic
    \/ NextTopic
    \/ ObtainSummarizer
    \/ SummarizeItem
    \/ Finish
    \/ Return

SpecTopics == Init /\ [][NextTopics]_vars

NextBackend ==
    \/ CallGetSummarizer
    \/ CallSummarizer
    \/ ChangeEnvironment
    \/ ResetSummarizer
    \/ Return

SpecBackend == InitBackend /\ [][NextBackend]_vars

NextConcurrent ==
    \/ \E c \in Callers : CheckCached(c)
    \/ \E c \in Callers : ConstructAndStore(c)
    \/ \E c \in Callers : Resume(c)
    \/ ResetBetweenCalls

SpecConcurrent == InitBackend /\ [][NextConcurrent]_vars

NextResolve == ResolveContent

SpecResolve == InitResolve /\ [][NextResolve]_vars

NextRoundTrip == StripHtml \/ NormaliseText \/ StripHtmlAgain

SpecRoundTrip == InitRoundTrip /\ [][NextRoundTrip]_vars

-----------------------------------------------------------------------------
(* Properties of summarize_articles, checked under Spec *)

ArticlesDone == op = "summarize_articles" /\ pc = "done"

\* The articles _prepare_articles considers.
Considered == 1..(IF Len(articles) > _MAX_ARTICLES THEN _MAX_ARTICLES
                  ELSE Len(articles))

NoneResolves ==
    /\ articles # <<>>
    /\ \A k \in Considered :
         /\ _resolve_article_content(articles[k], net).raised = NoException
         /\ _resolve_article_content(articles[k], net).text = <<>>

\* Every prepared article went through the loop and was left without summary.
AllSummariesEmpty ==
    /\ prepared # <<>>
    /\ Len(outcomes) = Len(prepared)
    /\ \A k \in 1..Len(outcomes) :
         outcomes[k].calls = 1 /\ outcomes[k].summary = <<>>

BackendFailed(k) == outcomes[k].raised # NoException

\* C2: when the backend call raises for some prepared articles, whatever the
\* exception, summarize_articles does not propagate the failure; each failed
\* article's summary is the first 200 characters of its content and the
\* briefing is made of the summaries of all the articles.
C2_BackendFailureStaysLocal ==
    (ArticlesDone /\ \E k \in 1..Len(outcomes) : BackendFailed(k))
      => /\ raised = NoException
         /\ Len(outcomes) = Len(prepared)
         /\ \A k \in 1..Len(outcomes) :
              BackendFailed(k) =>
                outcomes[k].summary = Strip(Degraded(prepared[k].content))
         /\ result = Briefing(summaries)

\* rel[j][k] says whether the j-th member of a list may come from position k
\* of 1..n: the members from the j-th on can be given increasing positions
\* from k on.
RECURSIVE EmbedsFrom(_, _, _, _)
EmbedsFrom(rel, j, k, n) ==
    IF j > Len(rel) THEN TRUE
    ELSE IF k > n THEN FALSE
    ELSE IF rel[j][k] THEN EmbedsFrom(rel, j + 1, k + 1, n)
    ELSE EmbedsFrom(rel, j, k + 1, n)

\* The members of `small` are, in their order, related by Rel to increasing
\* positions of 1..n.
Embeds(small, n, Rel(_, _)) ==
    EmbedsFrom([j \in 1..Len(small) |-> [k \in 1..n |-> Rel(small[j], k)]],
               1, 1, n)

\* The block starts with the bullet line of the k-th input article.
BlockOf(block, k) ==
    IsPrefixAt(block, 1, bullet_line(Prepare(articles[k], <<>>)) \o <<"\n">>)

\* The prepared article was made from the k-th input article.
PreparedFrom(item, k) ==
    bullet_line(item) = bullet_line(Prepare(articles[k], <<>>))

\* The url is the one of the k-th input article, which has no inline body.
FetchedFor(url, k) ==
    /\ Strip(articles[k].url) = url
    /\ Strip(Or(articles[k].content, articles[k].body)) = <<>>

\* C12: the blocks of the briefing are, in input order, blocks of some of
\* the first 5 input articles: at most 5 blocks, and an article at position
\* 6 or later is neither resolved, fetched nor summarised, also when earlier
\* articles were dropped.
C12_FirstFiveInOrder ==
    (op = "summarize_articles" /\ pc \in {"get_summarizer", "loop", "done"}) =>
      /\ Len(summaries) <= _MAX_ARTICLES
      /\ Embeds(summaries, Cardinality(Considered), BlockOf)
      /\ Embeds(prepared, Cardinality(Considered), PreparedFrom)
      /\ Embeds(fetched, Cardinality(Considered), FetchedFor)
      /\ Len(outcomes) <= Len(prepared)
      /\ (pc = "done" /\ raised = NoException /\ summaries # <<>>) =>
            result = Join(summaries)

\* Seven articles, the first one dropped: the briefing has the blocks of
\* articles 2, 3, 4 and 5, and only the url of article 3 was requested.
C12_Witness ==
    /\ ArticlesDone
    /\ raised = NoException
    /\ Len(articles) = _MAX_ARTICLES + 2
    /\ _resolve_article_content(articles[1], net).text = <<>>
    /\ Strip(articles[6].url) # <<>>
    /\ Len(summaries) = _MAX_ARTICLES - 1
    /\ fetched = <<U1>>
    /\ result = Join(summaries)

\* What content resolution gives for the k-th input article.
ResolvedText(k) == _resolve_article_content(articles[k], net).text

\* `content` is the first _MAX_CHARS characters of the non-empty `text`, or
\* all of it when it is shorter.
KeepsBudget(content, text) ==
    /\ text # <<>>
    /\ Len(content) = (IF Len(text) > _MAX_CHARS THEN _MAX_CHARS ELSE Len(text))
    /\ IsPrefixAt(text, 1, content)

\* The prepared article holds that much of the resolved content of the k-th
\* input article.
KeptFrom(item, k) ==
    PreparedFrom(item, k) /\ KeepsBudget(item.content, ResolvedText(k))

\* The considered articles whose resolution returns a non-empty text.
Resolving ==
    {k \in Considered :
        LET got == _resolve_article_content(articles[k], net)
        IN  got.raised = NoException /\ got.text # <<>>}

\* C13: every PreparedArticle has non-empty content of at most 1000
\* characters that is a prefix of the resolved content of its article, each
\* article keeping its own first 1000 characters whatever the others keep;
\* an article with empty resolved content gives no PreparedArticle and no
\* error.  The preparer has just run when no backend was asked for yet.
C13_ContentWithinBudget ==
    (op = "summarize_articles" /\ pc \in {"get_summarizer", "loop", "done"}) =>
      /\ \A j \in 1..Len(prepared) :
            /\ prepared[j].content # <<>>
            /\ Len(prepared[j].content) <= _MAX_CHARS
      /\ obtains = 0 =>
            /\ Embeds(prepared, Cardinality(Considered), KeptFrom)
            /\ raised = NoException =>
                  Len(prepared) = Cardinality(Resolving)
            /\ raised # NoException =>
                  \E k \in Considered :
                     _resolve_article_content(articles[k], net).raised = raised

\* Two articles of more than 1000 characters each, both kept to 1000.
C13_Witness ==
    /\ op = "summarize_articles"
    /\ pc = "get_summarizer"
    /\ Len(articles) = 2
    /\ Len(prepared) = 2
    /\ \A j \in 1..2 :
          /\ Len(ResolvedText(j)) > _MAX_CHARS
          /\ Len(prepared[j].content) = _MAX_CHARS

\* The k-th smallest member of a set of numbers.
Nth(S, k) == CHOOSE x \in S : Cardinality({y \in S : y < x}) = k - 1

\* The prepared articles left with a summary that is not blank.
Summarised == {k \in 1..Len(outcomes) : outcomes[k].summary # <<>>}

\* C14: an article whose backend result is empty or only whitespace gives no
\* block, the blocks of the other articles stay, in their order, and no
\* block of the briefing has an empty summary.
C14_BlankSummaryOmitted ==
    (op = "summarize_articles" /\ pc \in {"loop", "done"}) =>
      /\ Len(summaries) = Cardinality(Summarised)
      /\ \A j \in 1..Len(summaries) :
            LET k == Nth(Summarised, j)
                lead == bullet_line(prepared[k]) \o <<"\n", " ", " ">>
            IN  /\ summaries[j] = lead \o outcomes[k].summary
                /\ IsPrefixAt(summaries[j], 1, lead)
                /\ Strip(Drop(summaries[j], Len(lead))) # <<>>
      /\ (pc = "done" /\ raised = NoException /\ Summarised # {}) =>
            result = Join(summaries)

\* The backend returned whitespace for the second of at least three prepared
\* articles: the briefing has the blocks of the first and the third.
C14_Witness ==
    /\ ArticlesDone
    /\ raised = NoException
    /\ Len(outcomes) >= 3
    /\ outcomes[2].raised = NoException
    /\ outcomes[2].summary = <<>>
    /\ {1, 3} \subseteq Summarised
    /\ Len(summaries) = Len(outcomes) - 1
    /\ result = Join(summaries)

\* C16: nothing is retried within one summarize_articles call: each
\* considered article's url is requested at most once, the callable is
\* invoked at most once for each prepared article, and a failed call is
\* followed by the degraded summary, not by another invocation.
C16_NoRetries ==
    (op = "summarize_articles" /\ pc \in {"get_summarizer", "loop", "done"}) =>
      /\ Embeds(fetched, Cardinality(Considered), FetchedFor)
      /\ Len(outcomes) <= Len(prepared)
      /\ \A k \in 1..Len(outcomes) :
            /\ outcomes[k].item = k
            /\ outcomes[k].calls = 1
            /\ BackendFailed(k) =>
                  /\ outcomes[k].degraded
                  /\ outcomes[k].summary = Strip(Degraded(prepared[k].content))

\* Resolving a considered article raises: its url is requested and the
\* request fails with an exception that is not a requests.RequestException.
ResolutionRaised ==
    \E k \in Considered :
      /\ Strip(articles[k].url) # <<>>
      /\ FetchedFor(Strip(articles[k].url), k)
      /\ net[Strip(articles[k].url)].error
           \notin RequestExceptions \cup {NoException}

\* _prepare_articles returned its list.
PreparationFinished ==
    op = "summarize_articles" /\ articles # <<>> /\ ~ResolutionRaised

\* Constructing the backend fails in the present environment.
ConstructionFails == get_summarizer(_summarizer, env).raised # NoException

\* The backend was obtained at most once, and only for a finished
\* preparation that left an article.
ObtainedOnceAfterPreparation ==
    op = "summarize_articles" =>
      /\ obtains <= 1
      /\ obtains = 1 => (PreparationFinished /\ prepared # <<>>)

\* Nothing prepared: the sentinel, and get_summarizer was not called.
SentinelWithoutBackend ==
    (ArticlesDone /\ PreparationFinished /\ prepared = <<>>) =>
      /\ result = NO_NEWS
      /\ raised = NoException
      /\ obtains = 0
      /\ steps = <<>>

\* Something prepared and the construction fails: its error leaves
\* summarize_articles, no backend call was made and nothing is returned.
ConstructionFailurePropagates ==
    (ArticlesDone /\ PreparationFinished /\ prepared # <<>>
       /\ ConstructionFails) =>
      /\ obtains = 1
      /\ raised = get_summarizer(_summarizer, env).raised
      /\ outcomes = <<>>
      /\ summaries = <<>>
      /\ result = <<>>

\* get_summarizer is called at line 308 only, and no article is resolved or
\* fetched in the rest of the call.
ObtainFollowsResolution ==
    /\ obtains' = obtains + 1 =>
         /\ pc = "get_summarizer"
         /\ prepared # <<>>
         /\ <<articles, prepared, fetched>>' = <<articles, prepared, fetched>>
    /\ (obtains = 1 /\ pc' # "idle") =>
         <<articles, prepared, fetched>>' = <<articles, prepared, fetched>>

-----------------------------------------------------------------------------
(* Properties of summarize_by_topic, checked under SpecTopics *)

TopicsDone == op = "summarize_by_topic" /\ pc = "done" /\ raised = NoException

Keys(dict) == {dict[k].topic : k \in 1..Len(dict)}

\* C3: the keys of the mapping summarize_by_topic returns are exactly the
\* input topics, and a topic that matches no article maps to
\* "No news available.".
C3_KeysAreTheTopics ==
    TopicsDone =>
      /\ Keys(topicSummaries) = {topics[j] : j \in 1..Len(topics)}
      /\ \A k \in 1..Len(topicSummaries) :
           (\A i \in 1..Len(topicArticles) :
              ~Matches(topicSummaries[k].topic, topicArticles[i]))
             => topicSummaries[k].summary = NO_NEWS

\* The lower-cased title and description of an article, the description
\* being its desc or description field.
TitleAndDescription(art) ==
    Lower(art.title \o <<" ">> \o Or(art.desc, art.description))

\* Grouping has just run: no group was summarised yet.
GroupingDone ==
    op = "summarize_by_topic" /\ pc = "topic" /\ topicSummaries = <<>>

\* C18: the group of every topic is made of the original articles whose
\* lower-cased title and description contain the lower-cased topic, each
\* once and in input order; an article matching several topics is in the
\* group of each.
C18_GroupsAreTheMatches ==
    GroupingDone =>
      \A j \in 1..Len(topics) :
         LET InGroup(art) ==
               IsSubstring(Lower(topics[j]), TitleAndDescription(art))
             group == SelectSeq(topicArticles, InGroup)
         IN  /\ group # <<>> =>
                  \E g \in 1..Len(pending) : pending[g].topic = topics[j]
             /\ \A g \in 1..Len(pending) :
                  pending[g].topic = topics[j] => pending[g].arts = group

\* C15: during summarize_by_topic no url is requested: grouping and the
\* summaries of the groups use the inline title and description only, also
\* for an article with a url and no inline content.
C15_NoFetchByTopic ==
    op = "summarize_by_topic" => fetched = <<>>

-----------------------------------------------------------------------------
(* Properties of get_summarizer, checked under SpecBackend *)

\* A step that is a call of get_summarizer by the caller.
IsGetSummarizerCall == pc = "idle" /\ op' = "get_summarizer"

\* A finished get_summarizer call that ran selection.
SelectionDone == pc = "done" /\ op = "get_summarizer" /\ steps # <<>>

\* C4: once get_summarizer has returned a callable, every later call without
\* a reset returns that callable and runs neither selection nor construction,
\* whatever the flag and the credentials have become.
C4_CachedHandleReused ==
    [][IsGetSummarizerCall =>
         /\ raised' = NoException => (_summarizer' = summarizer'
                                        /\ summarizer' \in Handles)
         /\ _summarizer # None => /\ summarizer' = _summarizer
                                  /\ _summarizer' = _summarizer
                                  /\ steps' = <<>>
                                  /\ raised' = NoException]_vars

\* The loaded summarization callable is returned although the flag now asks
\* for the stub and the credential is gone.
C4_Witness ==
    /\ pc = "done"
    /\ op = "get_summarizer"
    /\ steps = <<>>
    /\ summarizer = "_summarize"
    /\ env.skip
    /\ ~env.creds

\* C5: a get_summarizer call that raises leaves the global unset, and a call
\* made with the global unset runs selection from its first step.
C5_FailureNotCached ==
    [][IsGetSummarizerCall =>
         /\ raised' # NoException => (_summarizer' = None /\ summarizer' = None)
         /\ _summarizer = None => (steps' # <<>> /\ steps'[1] = ReadSkipFlag)]_vars

\* Both pipelines failed to load.
C5_Witness ==
    /\ SelectionDone
    /\ raised = UnableToLoad
    /\ _summarizer = None
    /\ steps[Len(steps)] = LoadTextGeneration

ConstructionOrder ==
    <<ReadSkipFlag, ReadSettings, CheckBackend, ImportPipeline,
      LoadSummarization, LoadTextGeneration>>

Did(step) == \E k \in 1..Len(steps) : steps[k] = step

C7_StubWhenDisabled ==
    /\ (SelectionDone /\ env.skip) =>
          /\ summarizer = "_stub"
          /\ raised = NoException
          /\ steps = <<ReadSkipFlag>>
          /\ fetched = <<>>
    /\ \A k \in 1..Len(outcomes) :
          outcomes[k].handle = "_stub" =>
            /\ outcomes[k].raised = NoException
            /\ outcomes[k].summary = SKIPPED
            /\ IsSubstring(SKIP_FLAG_NAME, outcomes[k].summary)

\* The stub was selected with nothing else configured, and called.
C7_Witness ==
    /\ pc = "done"
    /\ op = "summarizer"
    /\ summarizer = "_stub"
    /\ steps = <<ReadSkipFlag>>
    /\ ~env.creds
    /\ env.runtime = "no_transformers"
    /\ result = SKIPPED

\* C8: a failure of the backend with status 401 or 403, or with an access
\* denial marker in its text, is raised as the access-restricted error, at
\* construction and during a summarize call, and does not make construction
\* fall back to the other task.
C8_AccessErrorReclassified ==
    /\ (SelectionDone /\ Did(LoadSummarization)
          /\ _is_authentication_error(env.summarization)) =>
          (raised = ModelAccessError /\ ~Did(LoadTextGeneration))
    /\ (SelectionDone /\ Did(LoadTextGeneration)
          /\ _is_authentication_error(env.text_generation)) =>
          raised = ModelAccessError
    /\ \A k \in 1..Len(outcomes) :
          (outcomes[k].lib.type # "none"
             /\ _is_authentication_error(outcomes[k].lib)) =>
            outcomes[k].raised = ModelAccessError

-----------------------------------------------------------------------------
(* Properties of get_summarizer under concurrent use, checked under
   SpecConcurrent *)

\* Assignments of the global since it was last reset.
RECURSIVE WritesUpTo(_)
WritesUpTo(c) == IF c = 0 THEN 0 ELSE callers[c].writes + WritesUpTo(c - 1)

Writes == WritesUpTo(MaxCallers)

\* The thread's call has returned a callable.
Obtained(c) ==
    callers[c].pc = "returned" /\ callers[c].raised = NoException

\* C17: between two resets the global is assigned at most once, also when
\* two threads make their first call at the same time; then both obtain a
\* callable of the same variant and the global is set once both returned.
C17_HandleWrittenOnce ==
    /\ Writes <= 1
    /\ (\A c \in Callers : Obtained(c)) =>
          /\ _summarizer \in Handles
          /\ \A c \in Callers : callers[c].handle = _summarizer

\* Each thread has assigned the global at most once since the last reset,
\* every assignment made stored the variant the global holds, and every
\* thread whose call returned holds that variant, the global being set.
WrittenOncePerCaller ==
    /\ \A c \in Callers :
          /\ callers[c].writes <= 1
          /\ callers[c].writes = 1 =>
                (callers[c].handle = _summarizer /\ _summarizer \in Handles)
          /\ Obtained(c) =>
                (callers[c].handle = _summarizer /\ _summarizer \in Handles)
    /\ Writes > 0 <=> _summarizer # None

\* A call that starts with the global set does not construct.
NoConstructionOnceSet ==
    \A c \in Callers :
       (callers[c].pc = "idle" /\ _summarizer # None) =>
         callers'[c].pc # "constructing"

\* C17 as amended: between two resets each thread assigns the global at
\* most once, and not at all in a call that starts after it was set, so that
\* calls that do not overlap assign it once; threads whose first calls
\* overlap may each assign it, all with the same variant, and every thread
\* whose call returned holds that variant, the global being set.
C17_HandleWrittenOncePerCaller ==
    []WrittenOncePerCaller /\ [][NoConstructionOnceSet]_vars

\* Every thread found the global unset and assigned it.
C17_Witness ==
    /\ \A c \in Callers : Obtained(c) /\ callers[c].writes = 1
    /\ _summarizer = "_generate"

-----------------------------------------------------------------------------
(* Properties of _resolve_article_content, checked under SpecResolve *)

Resolved == pc = "done" /\ op = "_resolve_article_content"

\* The first of two fields that is not blank, trimmed; empty when both are.
FirstNonBlank(a, b) == IF Strip(a) # <<>> THEN Strip(a) ELSE Strip(b)

\* C9: resolving an article whose content or body is not blank after
\* trimming fetches nothing, with or without url.
C9_NoFetchWithInlineContent ==
    (Resolved /\ FirstNonBlank(articles[1].content, articles[1].body) # <<>>)
      => fetched = <<>>

\* C10: the resolved content is the cleaned text of the first non-empty
\* source among content/body, the text fetched from the url and
\* desc/description, in this order, and empty when all are empty.
C10_FirstNonEmptySourceWins ==
    Resolved =>
      LET article == articles[1]
          inline == FirstNonBlank(article.content, article.body)
          remote == _download_article_text(Strip(article.url), net)
          short == FirstNonBlank(article.desc, article.description)
      IN  IF inline # <<>>
          THEN raised = NoException
                 /\ result = _normalise_text(_strip_html(inline))
          ELSE IF remote.raised # NoException THEN raised = remote.raised
          ELSE IF remote.text # <<>> THEN result = remote.text
          ELSE IF short # <<>>
          THEN result = _normalise_text(_strip_html(short))
          ELSE result = <<>>

\* The article has no inline body and a url whose fetch does not come back
\* with a text page.
FetchFails ==
    /\ Strip(Or(articles[1].content, articles[1].body)) = <<>>
    /\ Strip(articles[1].url) # <<>>
    /\ \/ net[Strip(articles[1].url)].error # NoException
       \/ ~net[Strip(articles[1].url)].textual

\* C11: content resolution never raises: every failure of the url fetch, a
\* connection error, a timeout, an HTTP error status, a content type that is
\* not text, or any other error, gives an empty fetched text, so that the
\* result is the cleaned desc or description.
C11_ResolutionNeverRaises ==
    Resolved =>
      /\ raised = NoException
      /\ FetchFails =>
           result = _normalise_text(_strip_html(
                        Strip(Or(articles[1].desc, articles[1].description))))

\* The article has no inline content and a url that answers with a text page.
FetchSucceeds ==
    /\ FirstNonBlank(articles[1].content, articles[1].body) = <<>>
    /\ Strip(articles[1].url) # <<>>
    /\ net[Strip(articles[1].url)].error = NoException
    /\ net[Strip(articles[1].url)].textual

\* normalize(strip_html(B)), B being the first 8000 characters of the page.
CleanedPage ==
    LET body == net[Strip(articles[1].url)].body
    IN  _normalise_text(_strip_html(
            IF Len(body) > _MAX_REMOTE_CHARS
            THEN Take(body, _MAX_REMOTE_CHARS) ELSE body))

\* C19: for an article with no inline content and a url whose fetch succeeds
\* with a text content type, the resolved content is normalize(strip_html(B))
\* with B the first 8000 characters of the page: the page is cut before its
\* tags are removed and nothing past character 8000 counts.
C19_ResolvedIsCleanedPage ==
    (Resolved /\ FetchSucceeds) =>
      (raised = NoException /\ result = CleanedPage)

\* C19 as amended: for such an article the resolved content is
\* normalize(strip_html(B)) when this text is not empty; when it is empty the
\* resolved content is the cleaned desc or description.
C19_ResolvedIsCleanedPageUnlessEmpty ==
    (Resolved /\ FetchSucceeds) =>
      /\ raised = NoException
      /\ fetched = <<Strip(articles[1].url)>>
      /\ LET cleaned == CleanedPage
         IN  IF cleaned # <<>> THEN result = cleaned
             ELSE result = _normalise_text(_strip_html(
                     Strip(Or(articles[1].desc, articles[1].description))))

\* The page has a tag across character 8000: the resolved content ends with
\* the cut tag, which removing the tags of the whole page would not leave.
C19_Witness ==
    /\ Resolved
    /\ FetchSucceeds
    /\ Len(net[U1].body) > _MAX_REMOTE_CHARS
    /\ net[U1].body[_MAX_REMOTE_CHARS] = "b"
    /\ result = CleanedPage
    /\ Len(result) = _MAX_REMOTE_CHARS
    /\ result[_MAX_REMOTE_CHARS] = "b"

\* The text _strip_html is applied to when the article has inline content.
InlineBody == Strip(Or(articles[1].content, articles[1].body))

\* Position p of s is in the body of a script or style element: after the
\* ">" of an opening tag and before the closing tag of the same name.
InElementBody(s, p) ==
    LET low == Lower(s)
    IN  \E name \in {ScriptName, StyleName} :
          \E i \in 1..(p - 1) :
            /\ IsPrefixAt(low, i, <<"<">> \o name)
            /\ \E g \in (i + 1 + Len(name))..(p - 1) :
                 /\ s[g] = ">"
                 /\ \A h \in (i + 1 + Len(name))..(g - 1) : s[h] # ">"
                 /\ \A q \in (g + 1)..p :
                      ~IsPrefixAt(low, q, <<"<", "/">> \o name \o <<">">>)
                 /\ \E q \in (p + 1)..Len(s) :
                      IsPrefixAt(low, q, <<"<", "/">> \o name \o <<">">>)

\* No character that s has in element bodies only is in out.
NoElementBodyIn(s, out) ==
    \A p \in 1..Len(s) :
      InElementBody(s, p) =>
        \/ \E o \in 1..Len(s) : s[o] = s[p] /\ ~InElementBody(s, o)
        \/ ~Contains(out, s[p])

\* out holds no markup tag: no "<", at least one other character, ">".
NoTagIn(out) ==
    \A i \in 1..Len(out) : \A j \in (i + 2)..Len(out) :
      ~(/\ out[i] = "<"
        /\ out[j] = ">"
        /\ \A k \in (i + 1)..(j - 1) : out[k] # ">")

\* C20: _strip_html removes every script and style element whole, opening
\* tag, body and closing tag, so that no character of such a body is in its
\* output, and then every remaining markup tag; seen on the inline content
\* of a resolved article.
C20_ScriptAndStyleRemoved ==
    (Resolved /\ InlineBody # <<>>) =>
      LET out == _strip_html(InlineBody)
      IN  /\ result = _normalise_text(out)
          /\ NoElementBodyIn(InlineBody, out)
          /\ NoTagIn(out)

-----------------------------------------------------------------------------
(* Properties of _strip_html and _normalise_text, checked under
   SpecRoundTrip *)

RoundTripDone == pc = "stripped again"

\* The text the round trip started from.
RoundTripInput == articles[1].content

\* C21: for every text x, strip_html(normalize(strip_html(x))) equals
\* strip_html(x): stripping again after normalization changes nothing, also
\* for texts with HTML entities or runs of whitespace.
C21_RoundTripIsStripHtml ==
    RoundTripDone => result = _strip_html(RoundTripInput)

\* The text holds a reference that decodes to "<" or ">".
HasMarkupEntity(s) == IsSubstring(EntityLt, s) \/ IsSubstring(EntityGt, s)

\* C21 as amended: when strip_html(x) holds no reference to "<" or ">",
\* strip_html(normalize(strip_html(x))) equals normalize(strip_html(x)): the
\* second stripping changes nothing of the normalized text.
C21_StrippingAgainChangesNothing ==
    (RoundTripDone /\ ~HasMarkupEntity(_strip_html(RoundTripInput))) =>
      result = _normalise_text(_strip_html(RoundTripInput))

\* The text "&amp;lt;a>": normalization leaves "&lt;a>", which the second
\* stripping keeps, and which is not strip_html(x).
C21_Witness ==
    /\ RoundTripDone
    /\ RoundTripInput = EntityAmp \o <<"l", "t", ";", "a", ">">>
    /\ result = EntityLt \o <<"a", ">">>
    /\ result # _strip_html(RoundTripInput)

=============================================================================
